---------------------------- MODULE Spec2Model ----------------------------
(***************************************************************************)
(* The Sudoku board and the recursive backtracking solver of solver.py.    *)
(*                                                                         *)
(* A run is one use of the library: a Board is constructed, the caller may *)
(* overwrite cells with set_value, and then exactly one of valid_values,   *)
(* solve or main is invoked.  solve's recursion is an explicit stack of    *)
(* frames; every frame aliases the one shared board.                       *)
(***************************************************************************)
EXTENDS Integers, Sequences, FiniteSets, TLC

\* Side of the grid: Board.__init__ asserts 9 rows of 9 columns.
N == 9

\* Side of a sub-square: _get_squares steps by 3 and spans range(3).
Box == 3

\* How many of HoleCells may be empty in a constructed board, and how many
\* empty cells a board handed to the solver may have.
MaxEmpty == 4

\* How many set_value calls the caller makes before querying or solving.
MaxSets == 1

\* range(9): the row and column indices.
Idx == 0 .. (N - 1)

\* range(1, 10): the digits valid_values probes, in this order.
Digits == 1 .. N

\* The values a cell may hold (Board.__init__: 0 <= value <= 9).
Values == 0 .. N

Cells == Idx \X Idx

\* The board literal of main(), with its empty cells completed; its clues
\* are unchanged.  Row r, column c is Grid[r + 1][c + 1].
Grid ==
    << <<1, 5, 7, 6, 8, 9, 4, 3, 2>>,
       <<2, 4, 9, 3, 5, 1, 7, 8, 6>>,
       <<6, 8, 3, 2, 7, 4, 5, 1, 9>>,
       <<3, 7, 5, 1, 9, 2, 8, 6, 4>>,
       <<8, 6, 1, 4, 3, 5, 9, 2, 7>>,
       <<4, 9, 2, 8, 6, 7, 1, 5, 3>>,
       <<7, 3, 4, 5, 1, 6, 2, 9, 8>>,
       <<9, 1, 6, 7, 2, 8, 3, 4, 5>>,
       <<5, 2, 8, 9, 4, 3, 6, 7, 1>> >>

\* The cells a constructed board may leave empty.  (4,6) (4,7) (6,6) (6,7)
\* hold 9 2 / 2 9, so a board with all four empty has two completions.
HoleCells == { <<4, 6>>, <<4, 7>>, <<6, 6>>, <<6, 7>>, <<3, 4>>, <<3, 7>> }

\* The cells the caller overwrites with set_value before solving.
SetCells == { <<3, 7>>, <<6, 7>> }

\* The cells the caller asks valid_values about: empty and filled ones.
QueryCells == HoleCells \cup { <<0, 0>>, <<3, 0>> }

\* Board(grid): the grid of main() with the cells of `holes` left empty.
Board(holes) ==
    [r \in Idx |-> [c \in Idx |->
        IF <<r, c>> \in holes THEN 0 ELSE Grid[r + 1][c + 1]]]

NumEmpty(b) == Cardinality({p \in Cells : b[p[1]][p[2]] = 0})

-----------------------------------------------------------------------------
(* Board *)

set_value(b, row, column, value) == [b EXCEPT ![row][column] = value]

get_value(b, row, column) == b[row][column]

\* _is_valid(values): the non-zero values are as many as their set.
is_valid_list(values) ==
    LET non_zero_values == SelectSeq(values, LAMBDA value : value # 0)
    IN  Cardinality({non_zero_values[i] : i \in 1 .. Len(non_zero_values)})
            = Len(non_zero_values)

\* self._board as the list of its rows.
get_rows(b) == [r \in 1 .. N |-> [c \in 1 .. N |-> b[r - 1][c - 1]]]

\* [[row[i] for row in self._board] for i in range(9)]
get_columns(b) == [i \in 1 .. N |-> [r \in 1 .. N |-> b[r - 1][i - 1]]]

\* square_cells with the squares one row apart instead of three.
square_cells_overlapping ==
    [s \in 1 .. (N \div Box) * (N \div Box) |->
        LET i == (s - 1) \div (N \div Box)
            j == Box * ((s - 1) % (N \div Box))
        IN  [e \in 1 .. Box * Box |->
                <<i + ((e - 1) \div Box), j + ((e - 1) % Box)>>]]

\* The cells _get_squares reads, in its order: squares by i in range(0,9,3)
\* then j in range(0,9,3); inside a square k in range(3) then l in range(3).
square_cells ==
    [s \in 1 .. (N \div Box) * (N \div Box) |->
        LET i == Box * ((s - 1) \div (N \div Box))
            j == Box * ((s - 1) % (N \div Box))
        IN  [e \in 1 .. Box * Box |->
                <<i + ((e - 1) \div Box), j + ((e - 1) % Box)>>]]

get_squares(b) ==
    [s \in DOMAIN square_cells |->
        [e \in DOMAIN square_cells[s] |->
            b[square_cells[s][e][1]][square_cells[s][e][2]]]]

is_valid_rows(b) ==
    \A i \in 1 .. N : is_valid_list(get_rows(b)[i])

is_valid_columns(b) ==
    \A i \in 1 .. N : is_valid_list(get_columns(b)[i])

is_valid_squares(b) ==
    \A s \in DOMAIN get_squares(b) : is_valid_list(get_squares(b)[s])

\* is_valid without the scan of the columns.
is_valid_no_columns(b) == is_valid_rows(b) /\ is_valid_squares(b)

is_valid(b) == is_valid_rows(b) /\ is_valid_columns(b) /\ is_valid_squares(b)

\* is_finished without the test that every cell is filled.
is_finished_unfilled(b) == is_valid(b)

\* is_finished without the call of is_valid.
is_finished_unchecked(b) == \A r \in Idx : \A c \in Idx : b[r][c] # 0

is_finished(b) ==
    /\ \A r \in Idx : \A c \in Idx : b[r][c] # 0
    /\ is_valid(b)

\* The loop of valid_values from `value` on: each digit is written into the
\* cell and kept when the whole board is valid with it.
RECURSIVE probe(_, _, _, _, _)
probe(b, row, column, value, valid) ==
    IF value > N
    THEN [board |-> b, values |-> valid]
    ELSE LET written == set_value(b, row, column, value)
         IN  probe(written, row, column, value + 1,
                   IF is_valid(written) THEN Append(valid, value) ELSE valid)

\* valid_values without the write that restores the cell.
valid_values_no_restore(b, row, column) ==
    probe(b, row, column, 1, <<>>)

\* valid_values with the digits probed from 9 down to 1.
valid_values_descending(b, row, column) ==
    LET probed == probe(b, row, column, 1, <<>>)
    IN  [board  |-> set_value(probed.board, row, column, get_value(b, row, column)),
         values |-> [i \in 1 .. Len(probed.values) |->
                        probed.values[Len(probed.values) + 1 - i]]]

\* valid_values(row, column): the list returned and the board left behind.
valid_values(b, row, column) ==
    LET original_value == get_value(b, row, column)
        probed == probe(b, row, column, 1, <<>>)
    IN  [board  |-> set_value(probed.board, row, column, original_value),
         values |-> probed.values]

-----------------------------------------------------------------------------
(* solve and main *)

VARIABLES
    board,      \* the one Board instance, mutated in place
    initial,    \* the board as it was when valid_values, solve or main began
    pc,         \* "idle", "main", "call", "loop", "return" or "done"
    stack,      \* the active calls of solve, outermost first
    returned,   \* what the call that last returned gave: "Board" or "None"
    outcome,    \* how the run ended
    query,      \* the valid_values call made: its arguments and its result
    nsets       \* set_value calls made by the caller so far

vars == <<board, initial, pc, stack, returned, outcome, query, nsets>>

NoCell == <<N, N>>

NoQuery == [row |-> N, column |-> N, values |-> <<>>]

\* The scan of solve: the first cell, rows first and columns within a row,
\* that holds 0; NoCell when both loops run to their end.
first_empty(b) ==
    LET empty == {row * N + column : <<row, column>> \in
                    {p \in Cells : get_value(b, p[1], p[2]) = 0}}
    IN  IF empty = {}
        THEN NoCell
        ELSE LET first == CHOOSE k \in empty : \A j \in empty : k <= j
             IN  <<first \div N, first % N>>

\* One activation of solve: the cell it fills, the candidates not yet tried,
\* and (for the properties only) the board it was entered with.
Frame(cell, values, entry) ==
    [row |-> cell[1], column |-> cell[2], values |-> values, entry |-> entry]

Top == stack[Len(stack)]

Init ==
    /\ \E holes \in SUBSET HoleCells :
          /\ Cardinality(holes) <= MaxEmpty
          /\ board = Board(holes)
    /\ initial = board
    /\ pc = "idle"
    /\ stack = <<>>
    /\ returned = "None"
    /\ outcome = "none"
    /\ query = NoQuery
    /\ nsets = 0

\* The caller overwrites a cell: board.set_value(row, column, value).
SetValue ==
    /\ pc = "idle"
    /\ nsets < MaxSets
    /\ \E p \in SetCells : \E value \in Values :
          /\ board' = set_value(board, p[1], p[2], value)
          /\ NumEmpty(board') <= MaxEmpty
    /\ initial' = board'
    /\ nsets' = nsets + 1
    /\ UNCHANGED <<pc, stack, returned, outcome, query>>

\* The caller asks board.valid_values(row, column).
QueryValidValues ==
    /\ pc = "idle"
    /\ \E p \in QueryCells :
          \E got \in {valid_values(board, p[1], p[2])} :
              /\ board' = got.board
              /\ query' = [row |-> p[1], column |-> p[2], values |-> got.values]
    /\ pc' = "done"
    /\ outcome' = "Queried"
    /\ UNCHANGED <<initial, stack, returned, nsets>>

\* main() is run on the board.
Main ==
    /\ pc = "idle"
    /\ pc' = "main"
    /\ UNCHANGED <<board, initial, stack, returned, outcome, query, nsets>>

\* main() without its assert.
MainWithoutAssert ==
    /\ pc = "main"
    /\ pc' = "call"
    /\ UNCHANGED <<board, initial, stack, returned, outcome, query, nsets>>

\* assert board.is_valid(), 'initial board is not valid'; then solve(board).
MainAssert ==
    /\ pc = "main"
    /\ IF is_valid(board)
       THEN /\ pc' = "call"
            /\ outcome' = outcome
       ELSE /\ pc' = "done"
            /\ outcome' = "InvalidPuzzle"
    /\ UNCHANGED <<board, initial, stack, returned, query, nsets>>

\* The caller runs solve(board) itself.
Solve ==
    /\ pc = "idle"
    /\ pc' = "call"
    /\ UNCHANGED <<board, initial, stack, returned, outcome, query, nsets>>

\* solve is entered: it returns the board when it is finished, falls off its
\* loops (None) when no cell is empty, and otherwise computes the candidates
\* of the first empty cell.
Enter ==
    /\ pc = "call"
    /\ \E cell \in {first_empty(board)} :
          IF is_finished(board)
          THEN /\ stack' = Append(stack, Frame(NoCell, <<>>, board))
               /\ pc' = "return"
               /\ returned' = "Board"
               /\ board' = board
          ELSE IF cell = NoCell
          THEN /\ stack' = Append(stack, Frame(NoCell, <<>>, board))
               /\ pc' = "return"
               /\ returned' = "None"
               /\ board' = board
          ELSE \E got \in {valid_values(board, cell[1], cell[2])} :
                  /\ stack' = Append(stack, Frame(cell, got.values, board))
                  /\ pc' = "loop"
                  /\ returned' = returned
                  /\ board' = got.board
    /\ UNCHANGED <<initial, outcome, query, nsets>>

\* The loop of solve without the write before the recursive call.
TryWithoutWrite ==
    /\ pc = "loop"
    /\ Top.values # <<>>
    /\ stack' = [stack EXCEPT ![Len(stack)].values = Tail(Top.values)]
    /\ pc' = "call"
    /\ UNCHANGED <<board, initial, returned, outcome, query, nsets>>

\* for value in ...: board.set_value(row, column, value); solve(board)
Try ==
    /\ pc = "loop"
    /\ Top.values # <<>>
    /\ board' = set_value(board, Top.row, Top.column, Head(Top.values))
    /\ stack' = [stack EXCEPT ![Len(stack)].values = Tail(Top.values)]
    /\ pc' = "call"
    /\ UNCHANGED <<initial, returned, outcome, query, nsets>>

\* The candidates are used up: return None.
Exhausted ==
    /\ pc = "loop"
    /\ Top.values = <<>>
    /\ pc' = "return"
    /\ returned' = "None"
    /\ UNCHANGED <<board, initial, stack, outcome, query, nsets>>

\* The loop of solve without the write of 0 after a failed candidate.
ReturnToCallerNoUndo ==
    /\ pc = "return"
    /\ Len(stack) > 1
    /\ pc' = IF returned = "Board" THEN "return" ELSE "loop"
    /\ stack' = SubSeq(stack, 1, Len(stack) - 1)
    /\ UNCHANGED <<board, initial, returned, outcome, query, nsets>>

\* The loop of solve with `return None` inside it: after the first failed
\* candidate the cell is reset and the call gives up.
ReturnToCallerGivesUp ==
    /\ pc = "return"
    /\ Len(stack) > 1
    /\ LET caller == stack[Len(stack) - 1]
       IN  IF returned = "Board"
           THEN board' = board
           ELSE board' = set_value(board, caller.row, caller.column, 0)
    /\ pc' = "return"
    /\ stack' = SubSeq(stack, 1, Len(stack) - 1)
    /\ UNCHANGED <<initial, returned, outcome, query, nsets>>

\* A recursive call comes back: `if solve(board): return board`, else
\* board.set_value(row, column, 0) and on to the next candidate.
ReturnToCaller ==
    /\ pc = "return"
    /\ Len(stack) > 1
    /\ LET caller == stack[Len(stack) - 1]
       IN  IF returned = "Board"
           THEN /\ pc' = "return"
                /\ board' = board
           ELSE /\ pc' = "loop"
                /\ board' = set_value(board, caller.row, caller.column, 0)
    /\ stack' = SubSeq(stack, 1, Len(stack) - 1)
    /\ UNCHANGED <<initial, returned, outcome, query, nsets>>

\* The outermost call comes back to main or to the caller.
ReturnTop ==
    /\ pc = "return"
    /\ Len(stack) = 1
    /\ stack' = <<>>
    /\ pc' = "done"
    /\ outcome' = IF returned = "Board" THEN "Solved" ELSE "NotSolvable"
    /\ UNCHANGED <<board, initial, returned, query, nsets>>

SolveStep == Enter \/ Try \/ Exhausted \/ ReturnToCaller \/ ReturnTop

Next ==
    \/ SetValue
    \/ QueryValidValues
    \/ Main
    \/ MainAssert
    \/ Solve
    \/ SolveStep

Spec == Init /\ [][Next]_vars

-----------------------------------------------------------------------------
(* What the properties are stated with: Sudoku's rules, written without    *)
(* the Board's methods.                                                    *)

\* The other cells of p's row, of its column and of its block.
Peers(p) ==
    LET top  == Box * (p[1] \div Box)
        left == Box * (p[2] \div Box)
    IN  ( {<<p[1], c>> : c \in Idx}
          \cup {<<r, p[2]>> : r \in Idx}
          \cup ((top .. top + Box - 1) \X (left .. left + Box - 1)) ) \ {p}

At(b, p) == b[p[1]][p[2]]

\* No row, column or block holds a non-zero digit twice.
NoRepeat(b) ==
    \A p \in Cells : \A q \in Peers(p) : At(b, p) # 0 => At(b, p) # At(b, q)

EmptySet(b) == {p \in Cells : At(b, p) = 0}

\* The assignments of digits to the empty cells of b.
Assignments(b) == [EmptySet(b) -> Digits]

\* b with its empty cells filled as f says.
Fill(b, f) ==
    [r \in Idx |-> [c \in Idx |->
        IF <<r, c>> \in DOMAIN f THEN f[<<r, c>>] ELSE b[r][c]]]

\* Every filled cell differs from each of its peers in Fill(b, f).  When b
\* itself repeats no digit, this is Fill(b, f) repeating none.
FillsCleanly(b, f) ==
    \A p \in DOMAIN f : \A q \in Peers(p) :
        f[p] # (IF q \in DOMAIN f THEN f[q] ELSE At(b, q))

\* The assignments whose filling is full and repeats no digit.
Completions(b) ==
    IF NoRepeat(b)
    THEN {f \in Assignments(b) : FillsCleanly(b, f)}
    ELSE {}

\* f is before g when the empty cells are read row by row.
LexLess(f, g) ==
    \E p \in DOMAIN f :
        /\ f[p] < g[p]
        /\ \A q \in DOMAIN f :
              q[1] * N + q[2] < p[1] * N + p[2] => f[q] = g[q]

\* The digits that repeat nothing in the row, column and block of the cell.
LocalCandidates(b, row, column) ==
    SelectSeq([v \in 1 .. N |-> v],
              LAMBDA v : \A q \in Peers(<<row, column>>) : At(b, q) # v)

-----------------------------------------------------------------------------
(* Properties *)

\* C1: when solve succeeds on a board on which is_valid() held, the board is
\* finished (is_finished() holds: every cell is non-zero and no row, column
\* or block repeats a digit) and every cell that was non-zero at the start
\* still holds its digit.
C1_SuccessIsCompletion ==
    (outcome = "Solved" /\ is_valid(initial)) =>
        /\ is_finished(board)
        /\ \A p \in Cells : At(board, p) # 0
        /\ NoRepeat(board)
        /\ \A p \in Cells : At(initial, p) # 0 => At(board, p) = At(initial, p)

\* solve succeeded after a search of at least three levels.
C1_Witness ==
    /\ outcome = "Solved"
    /\ is_valid(initial)
    /\ NumEmpty(initial) >= 3

\* C2: on a board on which is_valid() holds, the outermost solve returns
\* None only if no assignment of digits to the empty cells gives a finished
\* board; so it succeeds whenever a completion exists.
C2_Exhaustive ==
    (outcome = "NotSolvable" /\ is_valid(initial)) =>
        Completions(initial) = {}

\* solve gave up on a valid board with several empty cells.
C2_Witness ==
    /\ outcome = "NotSolvable"
    /\ is_valid(initial)
    /\ NumEmpty(initial) >= 3

\* C9: whenever a call of solve, outermost or recursive, returns None, every
\* cell holds what it held when that call was entered; after a failed
\* outermost call the board is the initial board.
C9_FailureRestoresBoard ==
    /\ (pc = "return" /\ returned = "None") => board = Top.entry
    /\ outcome = "NotSolvable" => board = initial

\* A recursive call returns None after its own candidates failed below it.
C9_Witness ==
    /\ pc = "return"
    /\ returned = "None"
    /\ Len(stack) >= 2
    /\ NumEmpty(Top.entry) < NumEmpty(initial)
    /\ is_valid(initial)

\* C10: when solve succeeds on a valid board, no completion of the initial
\* board is before the returned one in row-major order of the empty cells.
C10_LeastCompletion ==
    (outcome = "Solved" /\ is_valid(initial)) =>
        \A f \in Completions(initial) :
            ~LexLess(f, [p \in EmptySet(initial) |-> At(board, p)])

\* solve succeeded on a board that has more than one completion.
C10_Witness ==
    /\ outcome = "Solved"
    /\ is_valid(initial)
    /\ Cardinality(Completions(initial)) >= 2

\* The place of a run in the search, one component for each level of the
\* recursion, the outermost level first: a level not entered counts Fresh, a
\* level that is returning counts 0, and a level in its loop counts the
\* candidates it has left, twice, plus one while a call it made is running.
Fresh == 2 * N + 3

Component(stk, p, d) ==
    IF d = 0 THEN (IF p = "done" THEN 0 ELSE 1)
    ELSE IF d > Len(stk) THEN Fresh
    ELSE IF d = Len(stk) /\ p = "return" THEN 0
    ELSE 2 * Len(stk[d].values) + (IF d < Len(stk) \/ p = "call" THEN 1 ELSE 0) + 1

\* The step moves the run to an earlier place, in lexicographic order.
Descends ==
    \E d \in 0 .. Len(stack) + 1 :
        /\ Component(stack', pc', d) < Component(stack, pc, d)
        /\ \A e \in 0 .. d - 1 :
              Component(stack', pc', e) = Component(stack, pc, e)

Running == pc \in {"call", "loop", "return"}

\* C3: solve terminates on every board.  Each recursive call is made right
\* after a digit was written into a cell that held 0; the calls nested in
\* the outermost one are never more than the empty cells of the initial
\* board (so at most 81); every step of solve moves to an earlier place of a
\* well-founded order, and a running solve can always take its next step.
C3_Terminates ==
    /\ [][(pc = "loop" /\ pc' = "call") =>
            \E p \in EmptySet(board) :
                /\ At(board', p) \in Digits
                /\ \A q \in Cells \ {p} : At(board', q) = At(board, q)]_vars
    /\ [](Len(stack) <= NumEmpty(initial) + 1 /\ NumEmpty(initial) <= N * N)
    /\ [][Running => Descends]_vars
    /\ [](pc \in {"loop", "return"} =>
            ENABLED (Try \/ Exhausted \/ ReturnToCaller \/ ReturnTop))

\* The recursion is as deep as the initial board has empty cells.
C3_Witness ==
    /\ NumEmpty(initial) >= 3
    /\ Len(stack) = NumEmpty(initial) + 1

\* C4 as claimed: on every board, valid_values(r, c) is, in ascending order,
\* the digits that repeat nothing in row r, column c and the block of (r, c).
C4_LocalCandidatesOnEveryBoard ==
    outcome = "Queried" =>
        query.values = LocalCandidates(initial, query.row, query.column)

\* C4 as it holds: that is what valid_values(r, c) returns when the rest of
\* the board (the board with (r, c) emptied) repeats no digit; on any other
\* board it returns the empty list.
C4_LocalCandidatesOnValidRest ==
    outcome = "Queried" =>
        query.values =
            IF NoRepeat(set_value(initial, query.row, query.column, 0))
            THEN LocalCandidates(initial, query.row, query.column)
            ELSE <<>>

\* valid_values was asked about a filled cell whose digit repeats a peer's,
\* on a board with no other repeat, and found several candidates.
C4_Witness ==
    /\ outcome = "Queried"
    /\ At(initial, <<query.row, query.column>>) # 0
    /\ ~NoRepeat(initial)
    /\ Len(query.values) >= 2

\* Every cell is read in exactly one place of exactly one scanned square,
\* and the cells of a scanned square lie in one block.
SquaresPartitionCells ==
    /\ \A p \in Cells :
          Cardinality({se \in (DOMAIN square_cells) \X (1 .. Box * Box) :
                          square_cells[se[1]][se[2]] = p}) = 1
    /\ \A s \in DOMAIN square_cells : \A e \in DOMAIN square_cells[s] :
          /\ square_cells[s][e][1] \div Box = square_cells[s][1][1] \div Box
          /\ square_cells[s][e][2] \div Box = square_cells[s][1][2] \div Box

\* C5: is_valid() holds exactly when no row, column or block holds a
\* non-zero digit twice (zeros may repeat), and the nine squares it scans
\* partition the 81 cells.
C5_IsValidIffNoRepeat ==
    /\ is_valid(board) <=> NoRepeat(board)
    /\ SquaresPartitionCells

\* A board whose only repeat is inside a block: its rows and columns pass.
C5_Witness ==
    /\ is_valid_rows(board)
    /\ is_valid_columns(board)
    /\ ~is_valid_squares(board)
    /\ \E p \in Cells : At(board, p) = 0

\* C6: valid_values(r, c) leaves all 81 cells as they were, for an empty and
\* for a filled cell, so asking again gives the same list.
C6_NoNetMutation ==
    outcome = "Queried" =>
        /\ board = initial
        /\ valid_values(board, query.row, query.column).values = query.values
        /\ valid_values(board, query.row, query.column).board = board

\* valid_values was asked about a filled cell and found a candidate.
C6_Witness ==
    /\ outcome = "Queried"
    /\ At(initial, <<query.row, query.column>>) # 0
    /\ query.values # <<>>

\* C7: solve called on a board on which is_valid() fails never succeeds and
\* never recurses: its outermost call returns None, whether or not the board
\* has empty cells.
C7_InvalidBoardNotSolvable ==
    (~is_valid(initial) /\ outcome # "InvalidPuzzle") =>
        /\ outcome # "Solved"
        /\ Len(stack) <= 1
        /\ pc \in {"loop", "return"} => (Top.values = <<>> /\ returned = "None")
        /\ board = initial

\* solve returned None on an invalid board that had empty cells.
C7_Witness ==
    /\ outcome = "NotSolvable"
    /\ ~is_valid(initial)
    /\ NumEmpty(initial) >= 1

=============================================================================
